---- MODULE Spec2Model ----
(***************************************************************************)
(* Model of sphinxcontrib.stan (src/sphinxcontrib/stan/__init__.py): the   *)
(* signature parser, the matcher, the autodoc member filter and the        *)
(* domain's function registry with its cross-reference resolution.         *)
(*                                                                         *)
(* Texts are sequences of lexemes.  A lexeme is either one punctuation or  *)
(* whitespace character (" ", "(", ")", ",", "[", "]", ";") or a maximal   *)
(* run of word characters (\w+), written as a TLA+ string.  Every regular  *)
(* expression of the source only ever takes \w+ greedily and has the       *)
(* literal `array` followed by \s or `[`, so matching lexeme by lexeme is  *)
(* matching character by character.  A Python str is such a sequence, so   *)
(* the identifier `foo` is <<"foo">> and the empty string is <<>>.         *)
(*                                                                         *)
(* Optional[X] is a sequence of length at most one: None is <<>> and the   *)
(* value x is <<x>>.                                                       *)
(***************************************************************************)
EXTENDS Integers, Sequences, FiniteSets, TLC

VARIABLES
    functions,  \* StanDomain.data["functions"]: sequence of <<docname, anchor, signature>>
    uuids,      \* number of uuid.uuid4() calls made so far (the next anchor is fresh)
    op,         \* the operation that ran last
    inp,        \* its input
    ret,        \* what it returned
    raised,     \* the exception that left it ("none" when it returned)
    warnings    \* the LOGGER.warning records it emitted, in order

vars == <<functions, uuids, op, inp, ret, raised, warnings>>

(* ------------------------------ bounds -------------------------------- *)

\* Longest argument list of a generated signature text.
MaxArgs == 2
\* Most entries the registry is let to grow to.
MaxEntries == 3
\* Most signature spans of a Stan file.
MaxSpans == 3
\* Most members of a `:members:` option.
MaxMembers == 2

(* --------------------------- Optional values -------------------------- *)

None == <<>>
Some(x) == <<x>>
Val(o) == o[1]

\* Python truthiness of an Optional[str] / Optional[int].
TruthyStr(o) == o # None /\ Val(o) # <<>>
TruthyInt(o) == o # None /\ Val(o) # 0

(* ------------------------------ lexemes ------------------------------- *)

Punctuation == {" ", "(", ")", ",", "[", "]", ";", ":", "..."}

\* \w+ : a maximal run of word characters.
IsWord(t) == t \notin Punctuation

\* \s* : the text after its leading whitespace.
RECURSIVE SkipSpace(_)
SkipSpace(text) ==
    IF text # <<>> /\ Head(text) = " " THEN SkipSpace(Tail(text)) ELSE text

\* [,\s]* : the text after its leading commas and whitespace.
RECURSIVE SkipDims(_)
SkipDims(text) ==
    IF text # <<>> /\ Head(text) \in {",", " "} THEN SkipDims(Tail(text)) ELSE text

\* str.count(",").
RECURSIVE CountCommas(_)
CountCommas(text) ==
    IF text = <<>> THEN 0
    ELSE (IF Head(text) = "," THEN 1 ELSE 0) + CountCommas(Tail(text))

NoMatch == [found |-> FALSE]

\* The array marker from its opening bracket on: (?P<dims>[,\s]*)\]
ArrayDims(inner, b) ==
    IF b # <<>> /\ Head(b) = "]"
    THEN [found |-> TRUE, dims |-> SubSeq(inner, 1, Len(inner) - Len(b)), rest |-> Tail(b)]
    ELSE NoMatch

\* The array marker after the word `array`: \s*\[ and the dimensions.
ArrayBracket(a) ==
    IF a # <<>> /\ Head(a) = "[" THEN ArrayDims(Tail(a), SkipDims(Tail(a))) ELSE NoMatch

\* (?:array\s*\[(?P<dims>[,\s]*)\]) : the optional array marker, when it matches.
ArrayGroup(text) ==
    IF text # <<>> /\ Head(text) = "array" THEN ArrayBracket(SkipSpace(Tail(text)))
    ELSE NoMatch

\* The base type at the head of a text without leading whitespace: (?P<base_type>\w+)
BaseTypeWord(a) ==
    IF a # <<>> /\ IsWord(Head(a))
    THEN [found |-> TRUE, base_type |-> <<Head(a)>>, rest |-> Tail(a)]
    ELSE NoMatch

\* \s*(?P<base_type>\w+)
BaseTypeGroup(text) == BaseTypeWord(SkipSpace(text))

\* The match of TYPE_PATTERN given the match g of the array marker, the match t
\* of the base type after the marker and the match u of the base type from the
\* start: the marker is skipped (backtracking) when it or the base type after
\* it fails.
TypeMatch(g, t, u) ==
    IF t.found
    THEN [found |-> TRUE, dims |-> Some(g.dims), base_type |-> t.base_type, rest |-> t.rest]
    ELSE IF u.found
    THEN [found |-> TRUE, dims |-> None, base_type |-> u.base_type, rest |-> u.rest]
    ELSE NoMatch

\* The base type after a matched array marker.
AfterMarker(g) == IF g.found THEN BaseTypeGroup(g.rest) ELSE NoMatch

\* TYPE_PATTERN with the match g of its array marker known.
TypeWithMarker(g, text) == TypeMatch(g, AfterMarker(g), BaseTypeGroup(text))

\* TypedIdentifier.TYPE_PATTERN.match
TYPE_PATTERN(text) == TypeWithMarker(ArrayGroup(text), text)

\* TypedIdentifier.IDENTIFIER_PATTERN.match: (?P<identifier>\w+)\s*
IDENTIFIER_PATTERN(text) ==
    IF text # <<>> /\ IsWord(Head(text))
    THEN [found |-> TRUE, identifier |-> <<Head(text)>>, rest |-> SkipSpace(Tail(text))]
    ELSE NoMatch

\* TypedIdentifier.WHITESPACE_PATTERN.match: \s+
WHITESPACE_PATTERN(text) ==
    IF text # <<>> /\ Head(text) = " "
    THEN [found |-> TRUE, rest |-> SkipSpace(text)]
    ELSE NoMatch

\* A one-character token followed by \s*.
TokenThenSpace(tok, text) ==
    IF text # <<>> /\ Head(text) = tok
    THEN [found |-> TRUE, rest |-> SkipSpace(Tail(text))]
    ELSE NoMatch

\* Signature.OPEN_PATTERN, CLOSE_PATTERN, SEPARATOR_PATTERN
OPEN_PATTERN(text) == TokenThenSpace("(", text)
CLOSE_PATTERN(text) == TokenThenSpace(")", text)
SEPARATOR_PATTERN(text) == TokenThenSpace(",", text)

\* match_and_consume(pattern, text): the match and the remaining text; found is
\* FALSE where the source raises MatchNotFoundError.
match_and_consume(pattern, text) ==
    CASE pattern = "TYPE_PATTERN" -> TYPE_PATTERN(text)
      [] pattern = "IDENTIFIER_PATTERN" -> IDENTIFIER_PATTERN(text)
      [] pattern = "WHITESPACE_PATTERN" -> WHITESPACE_PATTERN(text)
      [] pattern = "OPEN_PATTERN" -> OPEN_PATTERN(text)
      [] pattern = "CLOSE_PATTERN" -> CLOSE_PATTERN(text)
      [] pattern = "SEPARATOR_PATTERN" -> SEPARATOR_PATTERN(text)

(* --------------------------- TypedIdentifier -------------------------- *)

Raise(name) == [raised |-> name]

\* TypedIdentifier.__init__
TypedIdentifier(identifier, type, dims, text) ==
    [identifier |-> identifier, type |-> type, dims |-> dims, text |-> text]

\* dims.count(",") + 1 when the array marker matched.
DimsOf(m) == IF m.dims = None THEN None ELSE Some(CountCommas(Val(m.dims)) + 1)

\* A step of TypedIdentifier.parse that matches nothing.
Skipped(text) == [found |-> TRUE, rest |-> text]

\* TypedIdentifier.parse from `instance = cls(...)` on: m1 is the match of the
\* type and m3 the match of the identifier.
ParsedInstance(text, parse_type, parse_identifier, m1, m3) ==
    IF ~m3.found THEN Raise("MatchNotFoundError")
    ELSE [raised |-> "none",
          instance |-> TypedIdentifier(IF parse_identifier THEN Some(m3.identifier) ELSE None,
                                       IF parse_type THEN Some(m1.base_type) ELSE None,
                                       IF parse_type THEN DimsOf(m1) ELSE None,
                                       Some(text)),
          remainder |-> m3.rest]

\* TypedIdentifier.parse from `if parse_identifier` on: m2 is the match of the
\* separating whitespace.
ParseIdentifier(text, parse_type, parse_identifier, m1, m2) ==
    IF ~m2.found THEN Raise("MatchNotFoundError")
    ELSE ParsedInstance(text, parse_type, parse_identifier, m1,
                        IF parse_identifier
                        THEN match_and_consume("IDENTIFIER_PATTERN", m2.rest)
                        ELSE Skipped(m2.rest))

\* TypedIdentifier.parse from `if parse_type and parse_identifier` on.
ParseWhitespace(text, parse_type, parse_identifier, m1) ==
    IF ~m1.found THEN Raise("MatchNotFoundError")
    ELSE ParseIdentifier(text, parse_type, parse_identifier, m1,
                         IF parse_type /\ parse_identifier
                         THEN match_and_consume("WHITESPACE_PATTERN", m1.rest)
                         ELSE Skipped(m1.rest))

\* TypedIdentifier.parse(text, parse_type, parse_identifier, return_remainder=True)
TypedIdentifier_parse(text, parse_type, parse_identifier) ==
    ParseWhitespace(text, parse_type, parse_identifier,
                    IF parse_type THEN match_and_consume("TYPE_PATTERN", text)
                    ELSE Skipped(text))

\* "," * n
RECURSIVE Commas(_)
Commas(n) == IF n <= 0 THEN <<>> ELSE <<",">> \o Commas(n - 1)

\* " ".join of the parts of TypedIdentifier.__repr__ that are truthy.
JoinParts(full_type, identifier) ==
    IF ~TruthyStr(full_type) /\ ~TruthyStr(identifier) THEN <<"...">>
    ELSE IF TruthyStr(full_type) /\ TruthyStr(identifier)
    THEN Val(full_type) \o <<" ">> \o Val(identifier)
    ELSE IF TruthyStr(full_type) THEN Val(full_type)
    ELSE Val(identifier)

\* str(self.type)
TypeStr(type) == IF type = None THEN <<"None">> ELSE Val(type)

\* full_type of TypedIdentifier.__repr__ with one comma per dimension.
FullType_OneCommaPerDim(self) ==
    IF TruthyInt(self.dims)
    THEN Some(<<"array", " ", "[">> \o Commas(Val(self.dims)) \o <<"]", " ">> \o TypeStr(self.type))
    ELSE self.type

\* full_type of TypedIdentifier.__repr__
FullType(self) ==
    IF TruthyInt(self.dims)
    THEN Some(<<"array", " ", "[">> \o Commas(Val(self.dims) - 1) \o <<"]", " ">> \o TypeStr(self.type))
    ELSE self.type

\* TypedIdentifier.__repr__
TypedIdentifier_repr(self) == JoinParts(FullType(self), self.identifier)

(* ------------------------------ Signature ----------------------------- *)

\* Signature.__init__
Signature(identifier, type, dims, args, doc, source_info, text) ==
    [identifier |-> identifier, type |-> type, dims |-> dims, text |-> text,
     args |-> args, doc |-> doc, source_info |-> source_info]

\* The argument loop of Signature.parse: the arguments gathered and the text
\* left when the loop breaks.
RECURSIVE ArgLoop(_, _, _)

\* The loop after an argument a was parsed, with the match s of the separator.
ArgLoopSeparator(args, parse_arg_identifiers, a, s) ==
    IF ~s.found THEN [args |-> Append(args, a.instance), text |-> a.remainder]
    ELSE ArgLoop(s.rest, Append(args, a.instance), parse_arg_identifiers)

\* The loop with the outcome a of parsing the next argument.
ArgLoopArgument(text, args, parse_arg_identifiers, a) ==
    IF a.raised # "none" THEN [args |-> args, text |-> text]
    ELSE ArgLoopSeparator(args, parse_arg_identifiers, a,
                          match_and_consume("SEPARATOR_PATTERN", a.remainder))

ArgLoop(text, args, parse_arg_identifiers) ==
    ArgLoopArgument(text, args, parse_arg_identifiers,
                    TypedIdentifier_parse(text, TRUE, parse_arg_identifiers))

\* ParseClose returning the signature read so far when the closing
\* parenthesis is missing.
ParseClose_Partial(instance, l, c) ==
    [raised |-> "none",
     instance |-> [instance EXCEPT !.args = Some(l.args)],
     remainder |-> IF c.found THEN c.rest ELSE l.text]

\* ParseClose leaving args unset when the parentheses hold no argument.
ParseClose_EmptyAsNone(instance, l, c) ==
    IF ~c.found THEN Raise("MatchNotFoundError")
    ELSE [raised |-> "none",
          instance |-> [instance EXCEPT !.args = IF l.args = <<>> THEN None ELSE Some(l.args)],
          remainder |-> c.rest]

\* Signature.parse after the argument loop: the closing parenthesis is required.
ParseClose(instance, l, c) ==
    IF ~c.found THEN Raise("MatchNotFoundError")
    ELSE [raised |-> "none",
          instance |-> [instance EXCEPT !.args = Some(l.args)],
          remainder |-> c.rest]

\* Signature.parse with the outcome l of the argument loop.
ParseArguments(instance, l) ==
    ParseClose(instance, l, match_and_consume("CLOSE_PATTERN", l.text))

\* Signature.parse from the try block on: o is the match of OPEN_PATTERN.
ParseOpen(instance, remainder, parse_arg_identifiers, o) ==
    IF ~o.found THEN [raised |-> "none", instance |-> instance, remainder |-> remainder]
    ELSE ParseArguments(instance, ArgLoop(o.rest, <<>>, parse_arg_identifiers))

\* Signature.parse with the outcome head of super().parse.
ParseHead(text, parse_arg_identifiers, doc, source_info, head) ==
    IF head.raised # "none" THEN Raise(head.raised)
    ELSE ParseOpen(Signature(head.instance.identifier, head.instance.type,
                             head.instance.dims, None, doc, source_info, Some(text)),
                   head.remainder, parse_arg_identifiers,
                   match_and_consume("OPEN_PATTERN", head.remainder))

\* Signature.parse(text, parse_type, parse_identifier, parse_arg_identifiers,
\*                 doc, source_info, return_remainder=True)
Signature_parse(text, parse_type, parse_identifier, parse_arg_identifiers, doc, source_info) ==
    ParseHead(text, parse_arg_identifiers, doc, source_info,
              TypedIdentifier_parse(text, parse_type, parse_identifier))

\* ", ".join(map(str, args))
RECURSIVE JoinArgs(_)
JoinArgs(args) ==
    IF args = <<>> THEN <<>>
    ELSE IF Len(args) = 1 THEN TypedIdentifier_repr(args[1])
    ELSE TypedIdentifier_repr(args[1]) \o <<",", " ">> \o JoinArgs(Tail(args))

\* Signature.__repr__ from `if self.source_info` on.
WithSourceInfo(value, source_info) ==
    IF source_info # None
    THEN value \o <<" ", "at", " ", Val(source_info)[1], ":", ToString(Val(source_info)[2])>>
    ELSE value

\* Signature.__repr__
Signature_repr(self) ==
    IF self.args = None THEN TypedIdentifier_repr(self)
    ELSE WithSourceInfo(TypedIdentifier_repr(self) \o <<"(">> \o JoinArgs(Val(self.args)) \o <<")">>,
                        self.source_info)

\* The values Signature.matches returns.
NONE == 0
NAME_ONLY == 1
FULL == 2

\* The pairwise loop comparing base types only.
ArgsMatch_IgnoringDims(self_args, other_args) ==
    \A i \in 1..Len(self_args) :
        LET a == self_args[i]
            b == other_args[i]
        IN /\ ~(a.type # b.type)
           /\ ~(TruthyStr(a.identifier) /\ a.identifier # b.identifier)

\* The pairwise loop of Signature.matches: no argument position differs.
ArgsMatch(self_args, other_args) ==
    \A i \in 1..Len(self_args) :
        LET a == self_args[i]
            b == other_args[i]
        IN /\ ~(a.type # b.type \/ a.dims # b.dims)
           /\ ~(TruthyStr(a.identifier) /\ a.identifier # b.identifier)

\* Signature.matches testing for a name-only reference before the identifiers.
Signature_matches_NameOnlyFirst(self, other) ==
    IF other.args = None THEN Raise("ValueError")
    ELSE [raised |-> "none",
          value |->
            IF self.args = None THEN NAME_ONLY
            ELSE IF self.identifier # other.identifier THEN NONE
            ELSE IF TruthyStr(self.type) /\ self.type # other.type THEN NONE
            ELSE IF Len(Val(self.args)) # Len(Val(other.args)) THEN NONE
            ELSE IF ~ArgsMatch(Val(self.args), Val(other.args)) THEN NONE
            ELSE FULL]

\* Signature.matches(self, other)
Signature_matches(self, other) ==
    IF other.args = None THEN Raise("ValueError")
    ELSE [raised |-> "none",
          value |->
            IF self.identifier # other.identifier THEN NONE
            ELSE IF TruthyStr(self.type) /\ self.type # other.type THEN NONE
            ELSE IF self.args = None THEN NAME_ONLY
            ELSE IF Len(Val(self.args)) # Len(Val(other.args)) THEN NONE
            ELSE IF ~ArgsMatch(Val(self.args), Val(other.args)) THEN NONE
            ELSE FULL]

(* --------------------- directive, domain, registry -------------------- *)

\* A registry entry: (docname, anchor, signature).
Entry(docname, anchor, signature) == <<docname, anchor, signature>>

\* LOGGER.warning records.
MissingArgumentsWarning == [kind |-> "signature is missing arguments"]
NotFoundWarning(target) == [kind |-> "target not found", target |-> Signature_repr(target)]
MultipleWarning(target, results) ==
    [kind |-> "multiple functions found",
     target |-> Signature_repr(target),
     candidates |-> [i \in 1..Len(results) |-> Signature_repr(results[i][3])],
     using |-> Signature_repr(results[1][3])]
NoMemberWarning(member) == [kind |-> "found no match", member |-> Signature_repr(member)]
MissingFileWarning == [kind |-> "does not exist"]
NoSignaturesWarning == [kind |-> "no signatures found"]

\* handle_signature with a Signature.desc that describes a signature without
\* an argument list as one without parameters.
handle_signature_NoDesc(text, source_info) ==
    LET r == Signature_parse(text, TRUE, TRUE, TRUE, None, source_info) IN
    IF r.raised # "none" THEN [raised |-> r.raised, warnings |-> <<>>]
    ELSE [raised |-> "none",
          warnings |-> IF r.instance.args = None THEN <<MissingArgumentsWarning>> ELSE <<>>,
          name |-> r.instance.identifier]

\* StanFunctionDirective.handle_signature(text, node): Signature.desc warns and
\* then iterates over args, which raises TypeError when args is None.
handle_signature(text, source_info) ==
    LET r == Signature_parse(text, TRUE, TRUE, TRUE, None, source_info) IN
    IF r.raised # "none" THEN [raised |-> r.raised, warnings |-> <<>>]
    ELSE IF r.instance.args = None
    THEN [raised |-> "TypeError", warnings |-> <<MissingArgumentsWarning>>]
    ELSE [raised |-> "none", warnings |-> <<>>, name |-> r.instance.identifier]

\* add_function inserting the entry at the front.
add_function_AtFront(registry, docname, anchor, signature) ==
    <<Entry(docname, anchor, signature)>> \o registry

\* StanDomain.add_function(sig, anchor, signature): the registry afterwards.
add_function(registry, docname, anchor, signature) ==
    Append(registry, Entry(docname, anchor, signature))

\* StanFunctionDirective.add_target_and_index(name, sig, signode): the registry
\* afterwards, with node_id the uuid just drawn.
add_target_and_index(registry, sig, docname, node_id, source_info) ==
    LET r == Signature_parse(sig, TRUE, TRUE, TRUE, None, source_info) IN
    IF r.raised # "none" THEN [raised |-> r.raised, registry |-> registry]
    ELSE [raised |-> "none",
          registry |-> add_function(registry, docname, node_id, r.instance)]

\* ResolveTarget falling back to the name that stands before the parenthesis.
ResolveTarget_NameBeforeParenthesis(target) ==
    LET r == Signature_parse(target, FALSE, TRUE, FALSE, None, None)
        n == TypedIdentifier_parse(target, FALSE, TRUE)
    IN IF r.raised = "none" THEN r.instance
       ELSE IF n.raised = "none"
       THEN Signature(n.instance.identifier, None, None, None, None, None, None)
       ELSE Signature(Some(target), None, None, None, None, None, None)

\* The target of StanDomain.resolve_xref: the reference parsed as a fragment, or
\* the name-only signature of the whole text when that raises.
ResolveTarget(target) ==
    LET r == Signature_parse(target, FALSE, TRUE, FALSE, None, None) IN
    IF r.raised # "none"
    THEN Signature(Some(target), None, None, None, None, None, None)
    ELSE r.instance

\* The loop of resolve_xref without its break: a later FULL match replaces an
\* earlier one.
RECURSIVE ResolveLoop_NoBreak(_, _, _)
ResolveLoop_NoBreak(target, entries, results) ==
    IF entries = <<>> THEN [raised |-> "none", results |-> results]
    ELSE LET m == Signature_matches(target, Head(entries)[3]) IN
         IF m.raised # "none" THEN [raised |-> m.raised, results |-> results]
         ELSE IF m.value = NONE THEN ResolveLoop_NoBreak(target, Tail(entries), results)
         ELSE IF m.value = FULL
         THEN ResolveLoop_NoBreak(target, Tail(entries), <<Head(entries)>>)
         ELSE ResolveLoop_NoBreak(target, Tail(entries), Append(results, Head(entries)))

\* The loop of resolve_xref over the registry: the results it ends with, or the
\* exception Signature.matches raises.
RECURSIVE ResolveLoop(_, _, _)
ResolveLoop(target, entries, results) ==
    IF entries = <<>> THEN [raised |-> "none", results |-> results]
    ELSE LET m == Signature_matches(target, Head(entries)[3]) IN
         IF m.raised # "none" THEN [raised |-> m.raised, results |-> results]
         ELSE IF m.value = NONE THEN ResolveLoop(target, Tail(entries), results)
         ELSE IF m.value = FULL THEN [raised |-> "none", results |-> <<Head(entries)>>]
         ELSE ResolveLoop(target, Tail(entries), Append(results, Head(entries)))

\* resolve_xref taking the last of its results.
resolve_xref_LastResult(registry, text) ==
    LET target == ResolveTarget(text)
        l == ResolveLoop(target, registry, <<>>)
    IN IF l.raised # "none" THEN [raised |-> l.raised, warnings |-> <<>>, value |-> None]
       ELSE IF l.results = <<>>
       THEN [raised |-> "none", warnings |-> <<NotFoundWarning(target)>>, value |-> None]
       ELSE [raised |-> "none",
             warnings |-> IF Len(l.results) > 1
                          THEN <<MultipleWarning(target, l.results)>> ELSE <<>>,
             value |-> Some(<<l.results[Len(l.results)][1], l.results[Len(l.results)][2]>>)]

\* resolve_xref returning silently when nothing matched.
resolve_xref_Silent(registry, text) ==
    LET target == ResolveTarget(text)
        l == ResolveLoop(target, registry, <<>>)
    IN IF l.raised # "none" THEN [raised |-> l.raised, warnings |-> <<>>, value |-> None]
       ELSE IF l.results = <<>>
       THEN [raised |-> "none", warnings |-> <<>>, value |-> None]
       ELSE [raised |-> "none",
             warnings |-> IF Len(l.results) > 1
                          THEN <<MultipleWarning(target, l.results)>> ELSE <<>>,
             value |-> Some(<<l.results[1][1], l.results[1][2]>>)]

\* StanDomain.resolve_xref(env, fromdocname, builder, typ, target, node, contnode):
\* the reference node is given by the document and the anchor it points to.
resolve_xref(registry, text) ==
    LET target == ResolveTarget(text)
        l == ResolveLoop(target, registry, <<>>)
    IN IF l.raised # "none" THEN [raised |-> l.raised, warnings |-> <<>>, value |-> None]
       ELSE IF l.results = <<>>
       THEN [raised |-> "none", warnings |-> <<NotFoundWarning(target)>>, value |-> None]
       ELSE [raised |-> "none",
             warnings |-> IF Len(l.results) > 1
                          THEN <<MultipleWarning(target, l.results)>> ELSE <<>>,
             value |-> Some(<<l.results[1][1], l.results[1][2]>>)]

\* StanDomain.get_objects()
get_objects(registry) ==
    [i \in 1..Len(registry) |->
        <<registry[i][3].identifier, registry[i][3].identifier, "function",
          registry[i][1], registry[i][2], 1>>]

(* ------------------------------ autodoc ------------------------------- *)

\* args.split(";"): the parts of text, cur being the part read so far.
RECURSIVE Split(_, _)
Split(text, cur) ==
    IF text = <<>> THEN <<cur>>
    ELSE IF Head(text) = ";" THEN <<cur>> \o Split(Tail(text), <<>>)
    ELSE Split(Tail(text), Append(cur, Head(text)))

\* The text without its trailing whitespace.
RECURSIVE StripRight(_)
StripRight(text) ==
    IF text # <<>> /\ text[Len(text)] = " " THEN StripRight(SubSeq(text, 1, Len(text) - 1))
    ELSE text

\* arg.strip()
Strip(text) == StripRight(SkipSpace(text))

\* One member of the `:members:` option: the text parsed as a reference
\* fragment, or Signature(arg, None) when that raises MatchNotFoundError.
ParseMember(arg, r) ==
    IF r.raised # "none" THEN Signature(Some(arg), None, None, None, None, None, None)
    ELSE r.instance

\* The members of the parts of a split option.
MembersOf(parts) ==
    [i \in 1..Len(parts) |->
        ParseMember(Strip(parts[i]),
                    Signature_parse(Strip(parts[i]), FALSE, TRUE, FALSE, None, None))]

\* StanAutoDocDirective._parse_members(args)
parse_members(args) ==
    IF args = None \/ Val(args) = <<>> THEN <<>> ELSE MembersOf(Split(Val(args), <<>>))

\* Whether member.matches(candidate) is truthy.  A candidate is the parse of a
\* span FUNCTION_PATTERN matched, which has an argument list.
MemberMatches(member, candidate) == Signature_matches(member, candidate).value # NONE

\* The candidates one member selects (the inner loop of run).
MemberHits(member, candidates) ==
    SelectSeq(candidates, LAMBDA c : MemberMatches(member, c))

\* The warning of a member, given its hits.
MemberWarning(member, hits) ==
    IF Len(hits) = 0 THEN <<NoMemberWarning(member)>> ELSE <<>>

\* The candidates some member matches, in the candidates' order.
AnyMemberMatches(members, candidates) ==
    SelectSeq(candidates, LAMBDA c : \E k \in 1..Len(members) : MemberMatches(members[k], c))

\* The warnings of the members without hits, in the members' order.
RECURSIVE MemberWarnings(_, _)
MemberWarnings(members, candidates) ==
    IF members = <<>> THEN <<>>
    ELSE MemberWarning(Head(members), MemberHits(Head(members), candidates))
         \o MemberWarnings(Tail(members), candidates)

\* The filter with its loops exchanged: candidates outside, members inside.
FilterMembers_CandidateMajor(members, candidates, signatures, warned) ==
    [signatures |-> signatures \o AnyMemberMatches(members, candidates),
     warnings |-> warned \o MemberWarnings(members, candidates)]

\* The filter stopping at the first member without a hit.
RECURSIVE FilterMembers_StopAtMissing(_, _, _, _)
FilterMembers_StopAtMissing(members, candidates, signatures, warned) ==
    IF members = <<>> THEN [signatures |-> signatures, warnings |-> warned]
    ELSE IF MemberHits(Head(members), candidates) = <<>>
    THEN [signatures |-> signatures, warnings |-> Append(warned, NoMemberWarning(Head(members)))]
    ELSE FilterMembers_StopAtMissing(Tail(members), candidates,
                                     signatures \o MemberHits(Head(members), candidates),
                                     warned)

\* The filter of StanAutoDocDirective.run (the outer loop): the signatures
\* selected and the warnings emitted.
RECURSIVE FilterMembers(_, _, _, _)
FilterMembers(members, candidates, signatures, warned) ==
    IF members = <<>> THEN [signatures |-> signatures, warnings |-> warned]
    ELSE FilterMembers(Tail(members), candidates,
                       signatures \o MemberHits(Head(members), candidates),
                       warned \o MemberWarning(Head(members),
                                               MemberHits(Head(members), candidates)))

\* The candidate signatures of run: each span FUNCTION_PATTERN.finditer found,
\* parsed with its line as source_info (the k-th span ends on line k).
CandidateSignatures(stan_file, spans) ==
    [k \in 1..Len(spans) |->
        Signature_parse(spans[k], TRUE, TRUE, TRUE, None, Some(<<stan_file, k>>)).instance]

\* The signatures run documents: those the members select, in the order
\* requested, or all the candidates when no members are given.
SelectedSignatures(members, candidates) ==
    IF members # <<>> THEN FilterMembers(members, candidates, <<>>, <<>>)
    ELSE [signatures |-> candidates, warnings |-> <<>>]

\* The last loop of run: a StanFunctionDirective runs on the text of each
\* signature, which registers it; the registry afterwards.
RECURSIVE RunDirectives(_, _, _, _)
RunDirectives(registry, signatures, docname, drawn) ==
    IF signatures = <<>> THEN registry
    ELSE RunDirectives(
            add_target_and_index(registry, Val(Head(signatures).text), docname,
                                 drawn + 1, Some(<<docname, 0>>)).registry,
            Tail(signatures), docname, drawn + 1)

(* ------------------------- input texts (parser) ----------------------- *)

BaseTypes == {"real", "int"}
ArgNames == {"x", "y"}
FunctionNames == {"f", "g"}
\* Array dimensionalities of generated return types and arguments (0: scalar).
ReturnDims == {0, 1}
ArgDims == {0, 2}

RECURSIVE Spaces(_)
Spaces(n) == IF n <= 0 THEN <<>> ELSE <<" ">> \o Spaces(n - 1)

\* How a text is spaced: the number of whitespace characters after `array`,
\* after `]`, between a type and its identifier, and after a comma.
Canonical == [array_ws |-> 1, bracket_ws |-> 1, ident_ws |-> 1, sep_ws |-> 1]
Styles ==
    { Canonical,
      [array_ws |-> 0, bracket_ws |-> 0, ident_ws |-> 1, sep_ws |-> 0],
      [array_ws |-> 2, bracket_ws |-> 2, ident_ws |-> 2, sep_ws |-> 2],
      [array_ws |-> 1, bracket_ws |-> 1, ident_ws |-> 1, sep_ws |-> 0],
      [array_ws |-> 0, bracket_ws |-> 1, ident_ws |-> 1, sep_ws |-> 1] }

\* type := [ "array" WS* "[" dims "]" WS* ] base_type
GenType(type, dims, style) ==
    (IF dims = 0 THEN <<>>
     ELSE <<"array">> \o Spaces(style.array_ws) \o <<"[">> \o Commas(dims - 1)
          \o <<"]">> \o Spaces(style.bracket_ws))
    \o <<type>>

\* arg := type [ WS identifier ]
GenArg(arg, style, with_identifier) ==
    GenType(arg.type, arg.dims, style)
    \o (IF with_identifier THEN Spaces(style.ident_ws) \o <<arg.name>> ELSE <<>>)

\* arglist := arg ("," WS* arg)*
RECURSIVE GenArgList(_, _, _)
GenArgList(args, style, with_identifier) ==
    IF args = <<>> THEN <<>>
    ELSE IF Len(args) = 1 THEN GenArg(args[1], style, with_identifier)
    ELSE GenArg(args[1], style, with_identifier) \o <<",">> \o Spaces(style.sep_ws)
         \o GenArgList(Tail(args), style, with_identifier)

\* signature := [ type WS ] identifier "(" [ arglist ] ")"
GenSignature(s, style, with_type, with_identifier) ==
    (IF with_type THEN GenType(s.type, s.dims, style) \o Spaces(style.ident_ws) ELSE <<>>)
    \o <<s.name, "(">> \o GenArgList(s.args, style, with_identifier) \o <<")">>

ArgShapes == [type : BaseTypes, dims : ArgDims, name : ArgNames]
ArgListShapes == UNION { [1..n -> ArgShapes] : n \in 0..MaxArgs }
SignatureShapes ==
    [type : BaseTypes, dims : ReturnDims, name : FunctionNames, args : ArgListShapes]

\* The texts of the signature grammar (full form), in every spacing style, and
\* those among them in the canonical spacing.
GrammarTexts == { GenSignature(s, st, TRUE, TRUE) : s \in SignatureShapes, st \in Styles }
CanonicalTexts == { GenSignature(s, Canonical, TRUE, TRUE) : s \in SignatureShapes }

\* Reference fragments: identifier "(" type ("," WS* type)* ")".
ReferenceTexts ==
    { GenSignature(s, st, FALSE, FALSE) : s \in SignatureShapes, st \in Styles }
    \cup { <<n>> : n \in FunctionNames }

\* Texts outside the grammar.
MalformedTexts ==
    { <<"real", " ", "f", "(", "real", " ", "x">>,
      <<"real", " ", "f", "(", "real", " ", "x", ",", " ", ")">>,
      <<"real", " ", "f", "(", "real", ")">>,
      <<"real", " ", "f", "(", " ", "real", " ", "x", " ", ")", " ">>,
      <<"real", " ", "f", "(", "real", " ", "x", ")", " ", "y">>,
      <<"real", " ", "f">>,
      <<"real">>,
      <<"array", " ", "[", "real", " ", "f", "(", ")">>,
      <<"array", " ", "[", " ", ",", " ", "]", " ", "real", " ", "f", "(", ")">>,
      <<"f", "(", "real", " ", "x", ")">>,
      <<"f", "(", "(", ")">>,
      <<"(", ")">>,
      <<>> }

\* The text with a whitespace character put after every argument, before the
\* comma or the closing parenthesis that follows it (in_dims: inside `[ ]`).
RECURSIVE Pad(_, _)
Pad(text, in_dims) ==
    IF text = <<>> THEN <<>>
    ELSE IF Head(text) = "[" THEN <<"[">> \o Pad(Tail(text), TRUE)
    ELSE IF Head(text) = "]" THEN <<"]">> \o Pad(Tail(text), FALSE)
    ELSE IF ~in_dims /\ Head(text) \in {",", ")"} THEN <<" ", Head(text)>> \o Pad(Tail(text), FALSE)
    ELSE <<Head(text)>> \o Pad(Tail(text), in_dims)

\* Full signatures and reference fragments with arguments, each argument
\* followed by whitespace.
PaddedTexts ==
    { Pad(GenSignature(s, Canonical, TRUE, TRUE), FALSE) :
        s \in { q \in SignatureShapes : q.args # <<>> } }
PaddedReferenceTexts ==
    { Pad(GenSignature(s, Canonical, FALSE, FALSE), FALSE) :
        s \in { q \in SignatureShapes : q.args # <<>> } }

DefaultMode ==
    [parse_type |-> TRUE, parse_identifier |-> TRUE, parse_arg_identifiers |-> TRUE]
ReferenceMode ==
    [parse_type |-> FALSE, parse_identifier |-> TRUE, parse_arg_identifiers |-> FALSE]
Modes ==
    { DefaultMode, ReferenceMode,
      [parse_type |-> TRUE, parse_identifier |-> TRUE, parse_arg_identifiers |-> FALSE],
      [parse_type |-> FALSE, parse_identifier |-> TRUE, parse_arg_identifiers |-> TRUE] }

SourceInfos == { None, Some(<<"index", 1>>) }

\* Calls with whitespace after every argument: full signatures in the default
\* mode, fragments in the reference mode.
PaddedInputs ==
    { [text |-> t, mode |-> DefaultMode, source_info |-> None] : t \in PaddedTexts }
    \cup { [text |-> t, mode |-> ReferenceMode, source_info |-> None] :
             t \in PaddedReferenceTexts }

\* What Signature.parse is called with in the parser specification.
ParseInputs ==
    { [text |-> t, mode |-> DefaultMode, source_info |-> None] : t \in GrammarTexts }
    \cup { [text |-> t, mode |-> DefaultMode, source_info |-> si] :
             t \in CanonicalTexts, si \in SourceInfos }
    \cup { [text |-> t, mode |-> ReferenceMode, source_info |-> None] :
             t \in ReferenceTexts }
    \cup { [text |-> t, mode |-> m, source_info |-> None] :
             t \in MalformedTexts, m \in Modes }
    \cup PaddedInputs

(* ----------------------- parser specification ------------------------- *)

\* A call of Signature.parse about to be made, with its arguments.
InitParse ==
    /\ functions = <<>>
    /\ uuids = 0
    /\ op = "call"
    /\ inp \in ParseInputs
    /\ ret = None
    /\ raised = "none"
    /\ warnings = <<>>

\* Signature.parse(text, **kwargs), as the parser tests call it.
Parse ==
    LET r == Signature_parse(inp.text, inp.mode.parse_type, inp.mode.parse_identifier, inp.mode.parse_arg_identifiers, None, inp.source_info)
    IN /\ op = "call"
       /\ op' = "parse"
       /\ raised' = r.raised
       /\ ret' = IF r.raised = "none" THEN r.instance ELSE None
       /\ UNCHANGED <<functions, uuids, inp, warnings>>

\* str(signature) of the signature just parsed.
Repr ==
    /\ op = "parse"
    /\ raised = "none"
    /\ op' = "repr"
    /\ ret' = Signature_repr(ret)
    /\ UNCHANGED <<functions, uuids, inp, raised, warnings>>

NextParse ==
    \/ Parse
    \/ Repr

SpecParse == InitParse /\ [][NextParse]_vars

(* ----------------------- matcher specification ------------------------ *)

\* The signatures Signature.parse builds from a set of texts in a mode.
Parsed(texts, mode) ==
    { r.instance : r \in { q \in { Signature_parse(t, mode.parse_type, mode.parse_identifier, mode.parse_arg_identifiers, None, None) : t \in texts } : q.raised = "none" } }

\* `Signature(target, None)`: the name-only signature the callers fall back to.
NameOnlySignature(target) == Signature(Some(target), None, None, None, None, None, None)

MatchArgShapes ==
    { [type |-> "real", dims |-> 0, name |-> "x"],
      [type |-> "real", dims |-> 0, name |-> "y"],
      [type |-> "int", dims |-> 0, name |-> "y"],
      [type |-> "real", dims |-> 2, name |-> "x"] }
MatchArgLists == UNION { [1..n -> MatchArgShapes] : n \in 0..MaxArgs }

\* Candidates: fully-qualified signatures, and one without an argument list.
CandidateTexts ==
    { GenSignature([type |-> "real", dims |-> d, name |-> n, args |-> a], Canonical, TRUE, TRUE) :
        d \in ReturnDims, n \in FunctionNames, a \in MatchArgLists }
    \cup { <<"real", " ", "f">> }
Candidates == Parsed(CandidateTexts, DefaultMode)

\* References: type-only fragments, fragments with a return type, full
\* signatures, bare names with and without a return type, and a fallback.
ReferenceFragments ==
    { GenSignature([type |-> "real", dims |-> 0, name |-> n, args |-> a], Canonical, FALSE, FALSE) :
        n \in FunctionNames, a \in MatchArgLists }
    \cup { <<n>> : n \in FunctionNames }
TypedFragments ==
    { GenSignature([type |-> t, dims |-> d, name |-> "f", args |-> a], Canonical, TRUE, FALSE) :
        t \in BaseTypes, d \in ReturnDims, a \in MatchArgLists }
    \cup { GenType(t, d, Canonical) \o <<" ", "f">> : t \in BaseTypes, d \in ReturnDims }
FullReferences ==
    { GenSignature([type |-> "real", dims |-> 0, name |-> "f", args |-> a], Canonical, TRUE, TRUE) :
        a \in MatchArgLists }
References ==
    Parsed(ReferenceFragments, ReferenceMode)
    \cup Parsed(TypedFragments, [parse_type |-> TRUE, parse_identifier |-> TRUE, parse_arg_identifiers |-> FALSE])
    \cup Parsed(FullReferences, DefaultMode)
    \cup { NameOnlySignature(<<"f", "(", "real", " ", "x", ")">>) }

\* A call reference.matches(candidate) about to be made.
InitMatch ==
    /\ functions = <<>>
    /\ uuids = 0
    /\ op = "call"
    /\ inp \in [reference : References, candidate : Candidates]
    /\ ret = None
    /\ raised = "none"
    /\ warnings = <<>>

\* reference.matches(candidate)
Match ==
    LET r == Signature_matches(inp.reference, inp.candidate)
    IN /\ op = "call"
       /\ op' = "matches"
       /\ raised' = r.raised
       /\ ret' = IF r.raised = "none" THEN Some(r.value) ELSE None
       /\ UNCHANGED <<functions, uuids, inp, warnings>>

NextMatch == Match

SpecMatch == InitMatch /\ [][NextMatch]_vars

(* ----------------------- registry specification ---------------------- *)

\* Signature texts of `stan:function` directives: overloads of f, another
\* function, a text without an argument list and one with an unclosed one.
DirectiveTexts ==
    { <<"real", " ", "f", "(", "int", " ", "x", ")">>,
      <<"real", " ", "f", "(", "int", " ", "x", ",", " ", "int", " ", "y", ")">>,
      <<"void", " ", "f", "(", "real", " ", "x", ",", " ", "int", " ", "y", ")">>,
      <<"real", " ", "g", "(", "array", " ", "[", ",", "]", " ", "real", " ", "x", ")">>,
      <<"real", " ", "f">>,
      <<"real", " ", "f", "(", "int", " ", "x">>,
      <<"real", " ", "f", "(", "int", ")">> }

\* Where a directive stands: env.docname and the line get_source_info() reports.
DirectivePlaces == { [docname |-> "index", line |-> 3], [docname |-> "api", line |-> 7] }

\* Targets of the `stan:func` role.
ReferenceTargets ==
    { <<"f">>, <<"g">>, <<"h">>,
      <<"f", "(", "int", ")">>,
      <<"f", "(", "int", ",", " ", "int", ")">>,
      <<"f", "(", "real", ",", " ", "int", ")">>,
      <<"f", "(", "real", ",", " ", "real", ")">>,
      <<"g", "(", "array", " ", "[", ",", "]", " ", "real", ")">>,
      <<"f", "(", "int">>,
      <<"f", "(", "int", " ", "x", ")">> }

\* initial_data: an empty registry at the start of a build.
Init ==
    /\ functions = <<>>
    /\ uuids = 0
    /\ op = "init"
    /\ inp = None
    /\ ret = None
    /\ raised = "none"
    /\ warnings = <<>>

\* A `stan:function` directive with one signature runs: the host calls
\* handle_signature and, unless that raised, add_target_and_index.
Add(text, place) ==
    LET source_info == Some(<<place.docname, place.line>>)
        h == handle_signature(text, source_info)
        a == add_target_and_index(functions, text, place.docname, uuids + 1, source_info)
    IN /\ Len(functions) < MaxEntries
       /\ op' = "add"
       /\ inp' = [text |-> text, place |-> place]
       /\ warnings' = h.warnings
       /\ IF h.raised # "none"
          THEN /\ raised' = h.raised
               /\ ret' = None
               /\ UNCHANGED <<functions, uuids>>
          ELSE /\ raised' = a.raised
               /\ ret' = None
               /\ uuids' = uuids + 1
               /\ functions' = a.registry

\* A `stan:func` reference is resolved.
Resolve(target) ==
    LET r == resolve_xref(functions, target)
    IN /\ op' = "resolve"
       /\ inp' = target
       /\ raised' = r.raised
       /\ warnings' = r.warnings
       /\ ret' = r.value
       /\ UNCHANGED <<functions, uuids>>

\* The host lists the domain's objects.
GetObjects ==
    /\ op' = "get_objects"
    /\ inp' = None
    /\ raised' = "none"
    /\ warnings' = <<>>
    /\ ret' = get_objects(functions)
    /\ UNCHANGED <<functions, uuids>>

Next ==
    \/ \E text \in DirectiveTexts, place \in DirectivePlaces : Add(text, place)
    \/ \E target \in ReferenceTargets : Resolve(target)
    \/ GetObjects

Spec == Init /\ [][Next]_vars

(* ------------------------ autodoc specification ---------------------- *)

\* The signature spans of a Stan file: overloads of f, a function g, another h.
SpanTexts ==
    { <<"real", " ", "f", "(", "real", " ", "x", ")">>,
      <<"real", " ", "f", "(", "real", " ", "x", ",", " ", "real", " ", "y", ")">>,
      <<"real", " ", "g", "(", "int", " ", "x", ")">>,
      <<"real", " ", "h", "(", ")">> }

\* Member specifications: names, a fragment, a name no span has, an unparsable one.
MemberTexts ==
    { <<"f">>, <<"g", "(", "int", ")">>, <<"f", "(", "real", ")">>, <<"missing">>,
      <<"g", "(", "int">>, <<>> }

\* The ways members are separated in the option.
MemberSeparators == { <<";">>, <<";", " ">> }

RECURSIVE JoinMembers(_, _)
JoinMembers(texts, sep) ==
    IF texts = <<>> THEN <<>>
    ELSE IF Len(texts) = 1 THEN texts[1]
    ELSE texts[1] \o sep \o JoinMembers(Tail(texts), sep)

\* The sequences of n spans, no span twice (Stan rejects a redefinition).
SpanLists(n) ==
    { f \in [1..n -> SpanTexts] : \A i, j \in 1..n : f[i] = f[j] => i = j }

\* The Stan file: missing (None) or the spans the scanner finds in it.
StanFiles == { None } \cup { Some(f) : f \in UNION { SpanLists(n) : n \in 0..MaxSpans } }

\* The `:members:` option: absent (None) or its text.
MemberOptions ==
    { None }
    \cup { Some(JoinMembers(m, sep)) :
             m \in UNION { [1..n -> MemberTexts] : n \in 1..MaxMembers },
             sep \in MemberSeparators }

\* A `stan:autodoc` directive about to run in document `index`.
InitMembers ==
    /\ functions = <<>>
    /\ uuids = 0
    /\ op = "call"
    /\ inp \in [stan_file : StanFiles, members : MemberOptions]
    /\ ret = None
    /\ raised = "none"
    /\ warnings = <<>>

\* StanAutoDocDirective.run with the candidates and the selection known.
AutodocSelected(candidates, selected) ==
    /\ ret' = selected.signatures
    /\ warnings' = (IF candidates = <<>> THEN <<NoSignaturesWarning>> ELSE <<>>)
                   \o selected.warnings
    /\ functions' = RunDirectives(functions, selected.signatures, "index", uuids)
    /\ uuids' = uuids + Len(selected.signatures)

\* StanAutoDocDirective.run with the candidate signatures known.
AutodocCandidates(candidates) ==
    AutodocSelected(candidates, SelectedSignatures(parse_members(inp.members), candidates))

\* StanAutoDocDirective.run
Autodoc ==
    /\ op = "call"
    /\ op' = "autodoc"
    /\ raised' = "none"
    /\ UNCHANGED inp
    /\ IF inp.stan_file = None
       THEN /\ ret' = <<>>
            /\ warnings' = <<MissingFileWarning>>
            /\ UNCHANGED <<functions, uuids>>
       ELSE AutodocCandidates(CandidateSignatures("index.stan", Val(inp.stan_file)))

NextMembers == Autodoc

SpecMembers == InitMembers /\ [][NextMembers]_vars

(* ------------------------------ claims -------------------------------- *)

\* The call of the parser the round trip is about: default keyword arguments
\* and no source location.
PlainCall == inp.mode = DefaultMode /\ inp.source_info = None

\* C1 (as stated): for every text of the signature grammar, parsing it and
\* re-serialising the result with str() yields exactly the original text.
C1_RoundTripEveryGrammarText ==
    /\ (op = "parse" /\ PlainCall /\ inp.text \in GrammarTexts) => raised = "none"
    /\ (op = "repr" /\ PlainCall /\ inp.text \in GrammarTexts) => ret = inp.text

\* C1 (as amended): for every text of the signature grammar written in the
\* canonical spacing (one space after `array`, after `]` and between a type and
\* its identifier, a comma and one space between arguments) parsing succeeds and
\* str() of the result is exactly the original text.
C1_RoundTripCanonical ==
    /\ (op = "parse" /\ PlainCall /\ inp.text \in CanonicalTexts) => raised = "none"
    /\ (op = "repr" /\ PlainCall /\ inp.text \in CanonicalTexts) => ret = inp.text

\* C1 witness: `array [] real f(array [,] real x, int y)` has been parsed and
\* re-serialised to itself.
C1_Witness ==
    /\ op = "repr"
    /\ PlainCall
    /\ inp.text = <<"array", " ", "[", "]", " ", "real", " ", "f", "(", "array", " ", "[", ",", "]", " ", "real", " ", "x", ",", " ", "int", " ", "y", ")">>
    /\ ret = inp.text

\* The reference and the candidate of a call that returned.
Returned == op = "matches" /\ raised = "none"
Ref == inp.reference
Cand == inp.candidate

\* C2: whenever the reference's identifier differs from the candidate's,
\* matches returns NONE, whatever the other fields of the two signatures are.
C2_IdentifierMismatchIsNone ==
    (op = "matches" /\ Cand.args # None /\ Ref.identifier # Cand.identifier)
        => (raised = "none" /\ ret = Some(NONE))

\* C2 witness: a reference that agrees with the candidate in its argument
\* list and differs in its identifier only has been scored NONE.
C2_Witness ==
    /\ Returned
    /\ Ref.identifier = Some(<<"g">>)
    /\ Cand.identifier = Some(<<"f">>)
    /\ Ref.args # None /\ Val(Ref.args) # <<>>
    /\ Len(Val(Ref.args)) = Len(Val(Cand.args))
    /\ ArgsMatch(Val(Ref.args), Val(Cand.args))
    /\ ret = Some(NONE)

\* The return-type gate as the matcher applies it: the reference names no base
\* type or names the candidate's.
GatePasses == Ref.type = None \/ Ref.type = Cand.type

\* Every argument position agrees: base type, dimensionality, and the
\* identifier where the reference carries one.
PositionsAgree ==
    /\ Len(Val(Ref.args)) = Len(Val(Cand.args))
    /\ \A i \in 1..Len(Val(Ref.args)) :
          /\ Val(Ref.args)[i].type = Val(Cand.args)[i].type
          /\ Val(Ref.args)[i].dims = Val(Cand.args)[i].dims
          /\ Val(Ref.args)[i].identifier \in {None, Val(Cand.args)[i].identifier}

\* C3: for a reference with an argument list and a candidate with one,
\* matches returns FULL exactly when the identifiers are equal, the return-type
\* gate passes and every position agrees, and NONE (never NAME_ONLY) otherwise.
C3_FullExactlyWhenAllAgree ==
    (op = "matches" /\ Ref.args # None /\ Cand.args # None)
        => /\ raised = "none"
           /\ ret = IF Ref.identifier = Cand.identifier /\ GatePasses /\ PositionsAgree
                    THEN Some(FULL) ELSE Some(NONE)

\* C3 witness: a two-argument reference with an identifier on an argument has
\* been scored FULL.
C3_Witness ==
    /\ Returned
    /\ Ref.args # None /\ Len(Val(Ref.args)) = 2
    /\ Val(Ref.args)[1].identifier # None
    /\ Val(Ref.args)[2].dims # None
    /\ ret = Some(FULL)

\* C4: whenever the reference specifies a return type and that return type,
\* base type together with array dimensionality, differs from the candidate's,
\* the result is NONE.
C4_ReturnTypeIsHardFilter ==
    (op = "matches" /\ Cand.args # None /\ Ref.type # None
       /\ (Ref.type # Cand.type \/ Ref.dims # Cand.dims))
        => (raised = "none" /\ ret = Some(NONE))

(* ------------------------- claims: the registry ----------------------- *)

\* The parsed target of the reference just resolved.
Target == ResolveTarget(inp)

\* How the target scores against the i-th entry of the registry.
Score(i) == Signature_matches(Target, functions[i][3])

\* The positions of the entries that score FULL, and of those that match at all.
FullHits == { i \in 1..Len(functions) : Score(i).raised = "none" /\ Score(i).value = FULL }
Hits == { i \in 1..Len(functions) : Score(i).raised = "none" /\ Score(i).value # NONE }

\* The first position of a non-empty set of positions.
First(S) == CHOOSE i \in S : \A j \in S : i <= j

\* What resolve returns for the i-th entry: its document and its anchor.
RefTo(i) == Some(<<functions[i][1], functions[i][2]>>)

\* C5: resolving a reference that carries an argument list returns the first
\* entry in insertion order that scores FULL, without an ambiguity warning; if
\* no entry scores FULL the reference is reported as not found, whatever
\* entries of the same identifier are registered.
C5_FirstFullMatchWins ==
    (op = "resolve" /\ Target.args # None)
        => /\ raised = "none"
           /\ IF FullHits = {}
              THEN ret = None /\ warnings = <<NotFoundWarning(Target)>>
              ELSE ret = RefTo(First(FullHits)) /\ warnings = <<>>

\* C5 witness: `f(int, int)` was resolved against a registry whose first entry
\* is another overload of f and whose second and third entries both score
\* FULL; the second was returned.
C5_Witness ==
    /\ op = "resolve"
    /\ inp = <<"f", "(", "int", ",", " ", "int", ")">>
    /\ FullHits = {2, 3}
    /\ functions[1][3].identifier = Target.identifier
    /\ ret = RefTo(2)
    /\ warnings = <<>>

\* The str() of the entries at the positions of Hits, in insertion order.
IsHitEntry(e) == Signature_matches(Target, e[3]).value # NONE
HitEntries == SelectSeq(functions, IsHitEntry)
HitTexts == [k \in 1..Len(HitEntries) |-> Signature_repr(HitEntries[k][3])]

\* C6: when a name-only reference matches more than one registered overload,
\* resolve emits one warning that enumerates every matching candidate in
\* insertion order and names the chosen one, and returns the first-inserted
\* matching entry (hence the same entry on every call on that registry).
C6_AmbiguousNameResolvesToFirst ==
    (op = "resolve" /\ Target.args = None /\ Cardinality(Hits) > 1)
        => /\ raised = "none"
           /\ ret = RefTo(First(Hits))
           /\ Len(warnings) = 1
           /\ warnings[1].kind = "multiple functions found"
           /\ warnings[1].candidates = HitTexts
           /\ warnings[1].using = Signature_repr(functions[First(Hits)][3])

\* C6 witness: `f` was resolved against three entries of which the second and
\* the third are overloads of f; the second was returned and both were listed.
C6_Witness ==
    /\ op = "resolve"
    /\ inp = <<"f">>
    /\ Hits = {2, 3}
    /\ functions[2][3] # functions[3][3]
    /\ ret = RefTo(2)
    /\ Len(warnings) = 1
    /\ Len(warnings[1].candidates) = 2

\* The positions of the entries of a registry that a reference text matches.
HitsIn(registry, text) ==
    { i \in 1..Len(registry) :
        Signature_matches(ResolveTarget(text), registry[i][3]).value # NONE }

\* C7: when no registry entry matches the reference, resolve emits a `target
\* not found` warning, returns None, raises no error and leaves the registry
\* unchanged.
C7_UnresolvableIsRecoverable ==
    [][ (op' = "resolve" /\ HitsIn(functions, inp') = {})
          => /\ raised' = "none"
             /\ ret' = None
             /\ warnings' = <<NotFoundWarning(ResolveTarget(inp'))>>
             /\ functions' = functions ]_vars

\* C7 witness: `f(real, real)` was resolved against three entries, overloads
\* of f among them, and none matched.
C7_Witness ==
    /\ op = "resolve"
    /\ inp = <<"f", "(", "real", ",", " ", "real", ")">>
    /\ Len(functions) = 3
    /\ \E i \in 1..3 : functions[i][3].identifier = Target.identifier
    /\ Hits = {}
    /\ ret = None
    /\ Len(warnings) = 1

\* The anchors of the registry.
Anchors(registry) == { registry[i][2] : i \in 1..Len(registry) }

\* C10: the registry is append-only: an add that succeeds appends exactly one
\* (document, anchor, signature) entry at the end, resolve and get_objects
\* leave the registry unchanged, and no step mutates, reorders or removes an
\* entry, so the registry before a step is a prefix of the registry after it.
C10_RegistryAppendOnly ==
    [][ /\ Len(functions') >= Len(functions)
        /\ SubSeq(functions', 1, Len(functions)) = functions
        /\ (op' \in {"resolve", "get_objects"} => functions' = functions)
        /\ (op' = "add" /\ raised' = "none") =>
              /\ Len(functions') = Len(functions) + 1
              /\ functions'[Len(functions')][1] = inp'.place.docname
              /\ functions'[Len(functions')][2] \notin Anchors(functions)
              /\ functions'[Len(functions')][3].text = Some(inp'.text) ]_vars

\* C10 witness: after three registrations the objects were listed.
C10_Witness ==
    /\ op = "get_objects"
    /\ Len(functions) = 3
    /\ Len(ret) = 3
    /\ Cardinality(Anchors(functions)) = 3

(* -------------------------- claims: autodoc --------------------------- *)

\* The candidates and the members of the autodoc directive that ran.
RunCandidates == CandidateSignatures("index.stan", Val(inp.stan_file))
RunMembers == parse_members(inp.members)
Filtered == op = "autodoc" /\ inp.stan_file # None /\ RunMembers # <<>>

\* The candidates the k-th member matches, in the candidates' order.
HitsOf(k) == SelectSeq(RunCandidates, LAMBDA c : Signature_matches(RunMembers[k], c).value # NONE)

\* The concatenation of the hits of the members k..n.
RECURSIVE HitsFrom(_)
HitsFrom(k) == IF k > Len(RunMembers) THEN <<>> ELSE HitsOf(k) \o HitsFrom(k + 1)

\* C8: the member filter returns, for each member in the given order, every
\* candidate it matches in the candidates' order, concatenated member by member.
C8_FilterPreservesMemberOrder ==
    Filtered => ret = HitsFrom(1)

\* C8 witness: of the members `f; g(int)` the first matches two candidates and
\* the second one, which stands before them in the file; the result is the two
\* overloads of f and then g.
C8_Witness ==
    /\ Filtered
    /\ Len(RunMembers) = 2
    /\ Len(RunCandidates) = 3
    /\ RunCandidates[1].identifier = Some(<<"g">>)
    /\ Len(HitsOf(1)) = 2
    /\ HitsOf(2) = <<RunCandidates[1]>>
    /\ ret = <<RunCandidates[2], RunCandidates[3], RunCandidates[1]>>

\* The members that match no candidate, in order, and their warnings.
MissingMembers == { k \in 1..Len(RunMembers) : HitsOf(k) = <<>> }
NoMatchWarnings == SelectSeq(warnings, LAMBDA w : w.kind = "found no match")
RECURSIVE MissingFrom(_)
MissingFrom(k) ==
    IF k > Len(RunMembers) THEN <<>>
    ELSE (IF k \in MissingMembers THEN <<NoMemberWarning(RunMembers[k])>> ELSE <<>>)
         \o MissingFrom(k + 1)

\* The number of results the members k..n account for.
RECURSIVE CountFrom(_)
CountFrom(k) == IF k > Len(RunMembers) THEN 0 ELSE Len(HitsOf(k)) + CountFrom(k + 1)

\* C9: a member that matches no candidate produces one `found no match`
\* warning for that member, contributes nothing to the result, and does not
\* stop the processing: every hit of every later member is still returned.
C9_MissingMemberWarnsAndContinues ==
    Filtered
        => /\ raised = "none"
           /\ NoMatchWarnings = MissingFrom(1)
           /\ Len(ret) = CountFrom(1)
           /\ \A k \in 1..Len(RunMembers) :
                 \A h \in 1..Len(HitsOf(k)) : \E r \in 1..Len(ret) : ret[r] = HitsOf(k)[h]

\* C9 witness: of the members `missing; f` the first matched nothing and was
\* warned about once, and both overloads of f were returned.
C9_Witness ==
    /\ Filtered
    /\ Len(RunMembers) = 2
    /\ MissingMembers = {1}
    /\ Len(HitsOf(2)) = 2
    /\ ret = HitsOf(2)
    /\ NoMatchWarnings = <<NoMemberWarning(RunMembers[1])>>

\* The signature text of a directive that has no argument list.
NoArgumentList == <<"real", " ", "f">>

\* C11: every signature stored in the registry carries a concrete argument
\* list, whatever texts the directives were given, and so no resolve ends with
\* the ValueError the matcher raises for a candidate without one.
C11_RegistryCarriesArgumentLists ==
    /\ \A i \in 1..Len(functions) : functions[i][3].args # None
    /\ (op = "resolve" => raised = "none")

\* A directive whose text has no argument list has just run on a registry
\* that already holds entries: it raised and registered nothing.
C11_Witness ==
    /\ op = "add"
    /\ inp.text = NoArgumentList
    /\ raised = "TypeError"
    /\ warnings = <<MissingArgumentsWarning>>
    /\ Len(functions) >= 1

\* The leading type/identifier of the text given to Signature.parse, and the
\* text that follows it.
LeadOf(i) == TypedIdentifier_parse(i.text, i.mode.parse_type, i.mode.parse_identifier)
AfterLead == LeadOf(inp).remainder

\* An opening parenthesis is next after the leading type/identifier, and a
\* closing one is next after it and the whitespace that follows it.
OpensArgumentList == AfterLead # <<>> /\ Head(AfterLead) = "("
EmptyParentheses ==
    /\ OpensArgumentList
    /\ SkipSpace(Tail(AfterLead)) # <<>>
    /\ Head(SkipSpace(Tail(AfterLead))) = ")"

\* text ends with suffix.
IsSuffix(suffix, text) ==
    /\ Len(suffix) <= Len(text)
    /\ SubSeq(text, Len(text) - Len(suffix) + 1, Len(text)) = suffix

\* The arguments are parsed arguments in their textual order: each is what
\* TypedIdentifier.parse reads at its place in the text, and each place lies
\* after the place of the argument before it.
InTextualOrder(args) ==
    /\ \A k \in 1..Len(args) :
          /\ IsSuffix(Val(args[k].text), inp.text)
          /\ args[k] = TypedIdentifier_parse(Val(args[k].text), TRUE, inp.mode.parse_arg_identifiers).instance
    /\ \A k \in 1..(Len(args) - 1) : Len(Val(args[k + 1].text)) < Len(Val(args[k].text))

\* What a parsed signature says of the shape its text was generated from.
ArgShapeOf(a) ==
    [type |-> Val(a.type)[1],
     dims |-> IF a.dims = None THEN 0 ELSE Val(a.dims),
     name |-> IF a.identifier = None THEN "" ELSE Val(a.identifier)[1]]
ShapeOf(sig) ==
    [type |-> IF sig.type = None THEN "" ELSE Val(sig.type)[1],
     dims |-> IF sig.dims = None THEN 0 ELSE Val(sig.dims),
     name |-> Val(sig.identifier)[1],
     args |-> [k \in 1..Len(Val(sig.args)) |-> ArgShapeOf(Val(sig.args)[k])]]

\* The text is one of the grammar, given in the mode that reads it in full.
GrammarCall ==
    \/ inp.mode = DefaultMode /\ inp.text \in GrammarTexts
    \/ inp.mode = ReferenceMode /\ inp.text \in ReferenceTexts /\ Len(inp.text) > 1

\* Generating a text from the parsed shape gives the text back in some spacing.
ArgumentsOfText ==
    \E st \in Styles :
        GenSignature(ShapeOf(ret), st, inp.mode.parse_type, inp.mode.parse_arg_identifiers) = inp.text

\* The fully-qualified overloads of an identifier, of either return type.
OverloadTexts ==
    { GenSignature([type |-> t, dims |-> 0, name |-> n, args |-> a], Canonical, TRUE, TRUE) :
        t \in BaseTypes, n \in FunctionNames, a \in MatchArgLists }
OverloadSignatures == Parsed(OverloadTexts, DefaultMode)
Overloads(identifier) == { c \in OverloadSignatures : c.identifier = identifier }

\* With an opening parenthesis next, args is the list of the parsed arguments
\* in their textual order, the empty list for `()`.
ArgumentListParsed ==
    /\ EmptyParentheses => ret.args = Some(<<>>)
    /\ OpensArgumentList =>
          /\ ret.args # None
          /\ InTextualOrder(Val(ret.args))
          /\ GrammarCall => ArgumentsOfText

\* The return-type gate of the matcher lets the overload c through.
GateLetsThrough(c) == ~TruthyStr(ret.type) \/ ret.type = c.type

\* C12 as stated: Signature.parse distinguishes an absent argument list from
\* an empty one. With no opening parenthesis after the leading type/identifier
\* args is None and the signature scores NAME_ONLY against every overload of
\* its identifier; `()` gives the empty list; otherwise args is the list of the
\* parsed arguments in their textual order.
C12_AbsentScoresNameOnlyAlways ==
    (op = "parse" /\ raised = "none") =>
        /\ ~OpensArgumentList =>
              /\ ret.args = None
              /\ \A c \in Overloads(ret.identifier) :
                    Signature_matches(ret, c) = [raised |-> "none", value |-> NAME_ONLY]
        /\ ArgumentListParsed

\* C12 amended: as above, but a signature without an argument list scores
\* NAME_ONLY against the overloads of its identifier that pass its return-type
\* gate (all of them when it carries no return type, as references do) and
\* NONE against the others.
C12_AbsentVersusEmptyArguments ==
    (op = "parse" /\ raised = "none") =>
        /\ ~OpensArgumentList =>
              /\ ret.args = None
              /\ \A c \in Overloads(ret.identifier) :
                    Signature_matches(ret, c) =
                        [raised |-> "none",
                         value |-> IF GateLetsThrough(c) THEN NAME_ONLY ELSE NONE]
        /\ ArgumentListParsed

\* A bare name was parsed as a reference: args is None and the identifier has
\* overloads of different arities to be scored against.
C12_Witness ==
    /\ op = "parse"
    /\ raised = "none"
    /\ inp.mode = ReferenceMode
    /\ ~OpensArgumentList
    /\ ret.args = None
    /\ \E c, d \in Overloads(ret.identifier) : Len(Val(c.args)) # Len(Val(d.args))

\* The text left after the leading type/identifier of text, read in mode.
LeadRemainder(text, mode) ==
    TypedIdentifier_parse(text, mode.parse_type, mode.parse_identifier).remainder

\* Signature.parse of text in mode consumes an opening parenthesis and, when
\* its argument loop ends, no closing parenthesis is next.
Unclosed(text, mode) ==
    /\ TypedIdentifier_parse(text, mode.parse_type, mode.parse_identifier).raised = "none"
    /\ match_and_consume("OPEN_PATTERN", LeadRemainder(text, mode)).found
    /\ ~match_and_consume("CLOSE_PATTERN",
                           ArgLoop(match_and_consume("OPEN_PATTERN", LeadRemainder(text, mode)).rest,
                                   <<>>, mode.parse_arg_identifiers).text).found

\* Signature.parse of text in mode raises the no-match error and returns no
\* signature.
ParseFails(text, mode) ==
    Signature_parse(text, mode.parse_type, mode.parse_identifier, mode.parse_arg_identifiers, None, None)
        = Raise("MatchNotFoundError")

\* C13: malformed signature text is a hard failure. When the opening
\* parenthesis was consumed and no closing parenthesis is next after the
\* argument loop, Signature.parse raises the no-match error and returns no
\* partial signature, in the mode of directives and in the mode of references;
\* a directive run with such a text raises that error and appends no entry to
\* the registry.
C13_MalformedTextIsHardFailure ==
    [][ /\ (op' = "add" /\ Unclosed(inp'.text, DefaultMode)) =>
              /\ ParseFails(inp'.text, DefaultMode)
              /\ raised' = "MatchNotFoundError"
              /\ functions' = functions
              /\ uuids' = uuids
        /\ (op' = "resolve" /\ Unclosed(inp', ReferenceMode)) =>
              ParseFails(inp', ReferenceMode) ]_vars

\* A directive whose argument cannot be parsed in the default mode (it has no
\* identifier) has just run on a registry that holds entries, and failed.
C13_Witness ==
    /\ op = "add"
    /\ inp.text = <<"real", " ", "f", "(", "int", ")">>
    /\ Unclosed(inp.text, DefaultMode)
    /\ raised = "MatchNotFoundError"
    /\ Len(functions) >= 1

\* C14: the type pattern and the identifier pattern both consume the
\* whitespace after the token, so whitespace after an argument's type or
\* identifier, before a comma or the closing parenthesis, does not make
\* Signature.parse fail, in the full mode and in the type-only reference mode.
C14_WhitespaceAfterTokensIsConsumed ==
    (op = "parse" /\ inp \in PaddedInputs) => (raised = "none" /\ ret.args # None)

\* The identifier of a registry entry is a single token of word characters.
SingleWord(identifier) ==
    /\ identifier # None
    /\ Len(Val(identifier)) = 1
    /\ IsWord(Val(identifier)[1])

\* C15: a reference text that fails to parse as a reference signature becomes
\* the name-only signature whose identifier is the whole text; every registered
\* identifier being a single word, it matches no entry, and resolve reports it
\* as not found and returns no entry.
C15_UnparsableReferenceIsNotFound ==
    /\ \A i \in 1..Len(functions) : SingleWord(functions[i][3].identifier)
    /\ \A t \in MalformedTexts :
          ParseFails(t, ReferenceMode) =>
              \A i \in 1..Len(functions) :
                  Signature_matches(ResolveTarget(t), functions[i][3])
                      = [raised |-> "none", value |-> NONE]
    /\ (op = "resolve" /\ ParseFails(inp, ReferenceMode)) =>
          /\ ResolveTarget(inp) = NameOnlySignature(inp)
          /\ \A i \in 1..Len(functions) :
                Signature_matches(ResolveTarget(inp), functions[i][3])
                    = [raised |-> "none", value |-> NONE]
          /\ raised = "none"
          /\ ret = None
          /\ warnings = <<NotFoundWarning(NameOnlySignature(inp))>>

\* The reference `f(int x)`, unparsable as a type-only fragment, was resolved
\* against a registry that holds the function it spells out.
C15_Witness ==
    /\ op = "resolve"
    /\ inp = <<"f", "(", "int", " ", "x", ")">>
    /\ ParseFails(inp, ReferenceMode)
    /\ \E i \in 1..Len(functions) :
          functions[i][3].text = Some(<<"real", " ", "f", "(", "int", " ", "x", ")">>)
    /\ ret = None

====
